---- MODULE Spec2Model ----
(***************************************************************************)
(* Book-exchange backend: the recommendation engine                        *)
(* (backend/app/services/recommendation_engine.py), the recommendation     *)
(* routes that drive it (backend/app/routes/recommendations.py) and the    *)
(* routes that change the tables it reads (create_book, moderate_book),    *)
(* and the exchange requests (backend/app/routes/exchanges.py) with the    *)
(* book routes that act on them (update_book, delete_book).                *)
(*                                                                         *)
(* Spec runs each request as one step, from empty tables.  SpecPopulated   *)
(* starts the server on tables that already hold a catalogue and an        *)
(* interaction history, SpecHistory on the longer history of one reader.   *)
(* SpecConc runs the requests that touch the shared engine on threads, one *)
(* statement per step.  SpecExchange runs the exchange and book routes as  *)
(* one step each; SpecExchangeConc and SpecViews run create_exchange and   *)
(* record_interaction on threads, one database statement per step.         *)
(*                                                                         *)
(* Numbers.  Python floats are modelled in fixed point:                    *)
(*   - tf-idf weights in tenths (idf = 1 + ln((1+n)/(1+df)), scaled by 10),*)
(*   - cosine similarities in thousandths (0..1000),                       *)
(*   - profile weights and unrounded scores in millionths (0..1000000),    *)
(*   - rounded scores (round(x, 3)) in thousandths.                        *)
(* Interaction weights are doubled (search 0.5 -> 1) to stay integral;     *)
(* only their ratios enter a profile.                                      *)
(***************************************************************************)
EXTENDS Integers, Sequences, FiniteSets, TLC

\* ------------------------------------------------------------------ bounds
NumUsers == 2
MaxBooks == 3
MaxInteractions == 1
MaxCount == 2
NumThreads == 2
CatalogueSize == 4
MaxHistory == 2
MaxUnavailable == 1
MaxLongHistory == 4
MaxMissing == 1
MaxExchanges == 3
ListedBooks == 2
MaxViews == 2

Users == 1..NumUsers
BookIds == 1..CatalogueSize
Counts == (-1)..MaxCount
Threads == 1..NumThreads
InteractionTypes == {"view", "like", "request", "search"}

\* ------------------------------------------------------------ text helpers
UpperSeq == <<"A","B","C","D","E","F","G","H","I","J","K","L","M",
              "N","O","P","Q","R","S","T","U","V","W","X","Y","Z">>
LowerSeq == <<"a","b","c","d","e","f","g","h","i","j","k","l","m",
              "n","o","p","q","r","s","t","u","v","w","x","y","z">>

Range(s) == {s[i] : i \in DOMAIN s}

\* str.lower() on one character
LowerChar(c) ==
    IF \E i \in DOMAIN UpperSeq : UpperSeq[i] = c
    THEN LowerSeq[CHOOSE i \in DOMAIN UpperSeq : UpperSeq[i] = c]
    ELSE c

\* re.sub(r'[^a-zA-Z\s]', ' ', text) on one character
StripChar(c) == IF c \in Range(LowerSeq) \cup Range(UpperSeq) \cup {" "} THEN c ELSE " "

\* text.split(): the maximal runs of non-blank characters, in order
RECURSIVE SplitFrom(_, _, _)
SplitFrom(text, i, cur) ==
    IF i > Len(text)
    THEN IF cur = <<>> THEN <<>> ELSE <<cur>>
    ELSE IF text[i] = " "
         THEN (IF cur = <<>> THEN <<>> ELSE <<cur>>) \o SplitFrom(text, i + 1, <<>>)
         ELSE SplitFrom(text, i + 1, Append(cur, text[i]))

Split(text) == SplitFrom(text, 1, <<>>)

\* ' '.join(words)
RECURSIVE Join(_)
Join(words) ==
    IF words = <<>> THEN <<>>
    ELSE IF Len(words) = 1 THEN words[1]
    ELSE words[1] \o <<" ">> \o Join(Tail(words))

preprocess_text(text) ==
    IF text = <<>> THEN <<>>
    ELSE LET lowered == [i \in DOMAIN text |-> LowerChar(text[i])]
             cleaned == [i \in DOMAIN lowered |-> StripChar(lowered[i])]
         IN  Join(Split(cleaned))

\* ------------------------------------------------------------- the listings
\* What a create_book request carries, by the id the row gets.  Titles that
\* differ only in digits or case preprocess to the same document; the first
\* listing shares one word with them.  The fourth listing has the author of
\* two others and a category of its own.
NoDescription == <<>>

Listing(b) ==
    CASE b % 4 = 1 -> [user_id |-> 2, title |-> <<"D","u","n","e"," ","W","o","r","l","d","s">>,
                       author |-> <<"S","a","g","a","n">>,
                       category |-> <<"S","c","i","e","n","c","e">>,
                       description |-> <<"t","h","e"," ","s","t","a","r","s">>]
      [] b % 4 = 2 -> [user_id |-> 1, title |-> <<"D","u","n","e">>,
                       author |-> <<"H","e","r","b","e","r","t">>,
                       category |-> <<"F","i","c","t","i","o","n">>,
                       description |-> NoDescription]
      [] b % 4 = 3 -> [user_id |-> 2, title |-> <<"D","U","N","E"," ","2">>,
                       author |-> <<"H","e","r","b","e","r","t">>,
                       category |-> <<"F","i","c","t","i","o","n">>,
                       description |-> NoDescription]
      [] OTHER      -> [user_id |-> 1, title |-> <<"E","m","m","a">>,
                       author |-> <<"H","e","r","b","e","r","t">>,
                       category |-> <<"C","l","a","s","s","i","c","s">>,
                       description |-> <<"a"," ","n","o","v","e","l">>]

\* A function as an explicit table: each entry is computed once, when the
\* table is built, instead of at every application.
Table(f) == f @@ <<>>

\* build_corpus, lines 72-77: the document of one book
Document(book) ==
    LET base == book.title \o <<" ">> \o book.author \o <<" ">> \o book.category
        text_content == IF book.description # NoDescription
                        THEN base \o <<" ">> \o book.description
                        ELSE base
    IN  preprocess_text(text_content)

\* ------------------------------------------------------------ the vectorizer
\* TfidfVectorizer parameters that differ between the two constructions in the
\* source; stop_words='english', min_df=1 and max_df=1.0 are the same in both.
DefaultVectorizer == [max_features |-> 5000, ngram_max |-> 2]
ReducedVectorizer == [max_features |-> 1000, ngram_max |-> 1]

\* The entries of scikit-learn's English stop-word list that the listings use.
StopWords == { <<"t","h","e">>, <<"a","n">>, <<"o","f">>, <<"a","n","d">> }

\* The analyzer: tokens of two or more characters, stop words removed.
Tokens(doc) == SelectSeq(Split(doc), LAMBDA w : Len(w) >= 2 /\ w \notin StopWords)

\* The n-grams of a token list, n = 1..ngram_max, each a tuple of tokens.
NgramsAt(tokens, n) == {SubSeq(tokens, i, i + n - 1) : i \in 1..(Len(tokens) - n + 1)}

Features(doc, params) ==
    UNION {NgramsAt(Tokens(doc), n) : n \in 1..params.ngram_max}

TermCount(doc, f) ==
    LET tokens == Tokens(doc)
    IN  Cardinality({i \in 1..(Len(tokens) - Len(f) + 1) :
                        SubSeq(tokens, i, i + Len(f) - 1) = f})

\* ln(k) in tenths, k = 1..8
Ln10 == <<0, 7, 11, 14, 16, 18, 19, 21>>

\* smooth idf, ln((1 + n) / (1 + df)) + 1, in tenths
Idf10(n, df) == 10 + Ln10[1 + n] - Ln10[1 + df]

\* The vocabulary of a fit.  max_features keeps the most frequent terms when
\* there are more than the cap.
Vocabulary(corpus, params) ==
    LET all == UNION {Features(corpus[i].text, params) : i \in DOMAIN corpus}
        total(f) == LET RECURSIVE Sum(_)
                        Sum(i) == IF i = 0 THEN 0
                                  ELSE TermCount(corpus[i].text, f) + Sum(i - 1)
                    IN  Sum(Len(corpus))
    IN  IF Cardinality(all) <= params.max_features THEN all
        ELSE CHOOSE S \in SUBSET all :
                /\ Cardinality(S) = params.max_features
                /\ \A f \in S, g \in all \ S : total(f) >= total(g)

\* params.fit_transform(corpus): one row of tf * idf weights per document.
\* scikit-learn stores each row divided by its Euclidean norm; the division is
\* done in Cosine below, where the norm is used.  Field `of` records the book
\* whose document the row was fitted from.
fit_transform(corpus, params) ==
    LET vocab == Vocabulary(corpus, params)
        n == Len(corpus)
        df(f) == Cardinality({i \in DOMAIN corpus : TermCount(corpus[i].text, f) > 0})
    IN  Table([i \in DOMAIN corpus |->
            [of |-> corpus[i].id,
             w  |-> Table([f \in vocab |->
                            TermCount(corpus[i].text, f) * Idf10(n, df(f))])]])

\* ------------------------------------------------------------- arithmetic
RECURSIVE SumOver(_, _)
SumOver(S, g) ==
    IF S = {} THEN 0
    ELSE LET x == CHOOSE y \in S : TRUE IN g[x] + SumOver(S \ {x}, g)

\* floor(sqrt(n)) by bisection
RECURSIVE SqrtBetween(_, _, _)
SqrtBetween(n, lo, hi) ==
    IF lo >= hi THEN lo
    ELSE LET mid == (lo + hi + 1) \div 2
         IN  IF mid * mid <= n THEN SqrtBetween(n, mid, hi)
             ELSE SqrtBetween(n, lo, mid - 1)

ISqrt(n) == SqrtBetween(n, 0, 46340)

\* cosine_similarity of two rows, in thousandths; a zero row has similarity 0
Cosine(r1, r2) ==
    LET vocab == DOMAIN r1.w
        dot == SumOver(vocab, [f \in vocab |-> r1.w[f] * r2.w[f]])
        n1  == SumOver(vocab, [f \in vocab |-> r1.w[f] * r1.w[f]])
        n2  == SumOver(vocab, [f \in vocab |-> r2.w[f] * r2.w[f]])
    IN  IF n1 = 0 \/ n2 = 0 THEN 0
        ELSE (dot * 1000) \div ISqrt(n1 * n2)

\* round(x, 3) of a value in millionths, to thousandths (ties to even)
Round3(x) ==
    LET q == x \div 1000
        r == x % 1000
    IN  IF r > 500 \/ (r = 500 /\ q % 2 = 1) THEN q + 1 ELSE q


\* ---------------------------------------------------------------- the state
VARIABLES
    books,            \* table books: id -> [exists, available]; the other columns are Listing(id)
    next_book_id,     \* the AUTO_INCREMENT counter of table books
    interactions,     \* table user_interactions: row (without id and time) -> number of such rows
    plan,             \* the access path the database uses for a query without ORDER BY
    exchanges,        \* table exchange_requests: id -> [requester_id, owner_id, book_id, status]
    next_exchange_id, \* the AUTO_INCREMENT counter of table exchange_requests
    vectorizer,       \* RecommendationEngine.vectorizer
    tfidf_matrix,     \* RecommendationEngine.tfidf_matrix
    book_ids,         \* RecommendationEngine.book_ids
    book_features,    \* RecommendationEngine.book_features
    pc,               \* per request thread: the statement it executes next
    local             \* per request thread: its local variables

exchange_vars == <<exchanges, next_exchange_id>>
db_vars == <<books, next_book_id, interactions, plan, exchange_vars>>
engine_vars == <<vectorizer, tfidf_matrix, book_ids, book_features>>
thread_vars == <<pc, local>>

\* The engine's fields as one value, for the methods below.
Self == [vectorizer |-> vectorizer, tfidf_matrix |-> tfidf_matrix,
         book_ids |-> book_ids, book_features |-> book_features]

\* self.tfidf_matrix = None
NoMatrix == [fitted |-> FALSE, rows |-> <<>>]

\* ------------------------------------------------------------ the database
Exists(b) == b \in DOMAIN books /\ books[b].exists

\* Book.query.get(id): the row, with the columns the engine and the routes read
BookRow(b) ==
    [id |-> b, user_id |-> Listing(b).user_id, title |-> Listing(b).title,
     author |-> Listing(b).author, category |-> Listing(b).category,
     description |-> Listing(b).description, available |-> books[b].available]

\* Book.to_dict(), the fields the properties read
to_dict(book) == [id |-> book.id, user_id |-> book.user_id, available |-> book.available]

\* The order in which a query without ORDER BY returns rows: by primary key,
\* by the index on (user_id, available) and then the primary key, or by the
\* index on (available, category) and then the primary key.  Every such
\* query here asks for available rows only.
Plans == {"primary", "owner_index", "category_index"}

\* The position of a character in the case-insensitive collation
CharRank(c) == CHOOSE i \in DOMAIN LowerSeq : LowerSeq[i] = LowerChar(c)

\* s < t in that collation, for words of letters: s is a proper prefix of
\* t, or is smaller at the first position where they differ
StringBefore(s, t) ==
    \E i \in 1..Len(t) :
        /\ \A j \in 1..(i - 1) : j <= Len(s) /\ CharRank(s[j]) = CharRank(t[j])
        /\ i > Len(s) \/ CharRank(s[i]) < CharRank(t[i])

\* The key by which each access path returns the rows: the indexed columns,
\* then the primary key
ScanKey ==
    Table([p \in Plans |-> Table([b \in BookIds |->
        CASE p = "primary" -> b
          [] p = "owner_index" -> Listing(b).user_id * (CatalogueSize + 1) + b
          [] OTHER ->
                Cardinality({x \in BookIds :
                    StringBefore(Listing(x).category, Listing(b).category)})
                        * (CatalogueSize + 1) + b])])

RowBefore(p, a, b) == ScanKey[p][a] < ScanKey[p][b]

RECURSIVE ScanWith(_, _)
ScanWith(p, S) ==
    IF S = {} THEN <<>>
    ELSE LET first == CHOOSE a \in S : \A b \in S \ {a} : RowBefore(p, a, b)
         IN  <<first>> \o ScanWith(p, S \ {first})

Scan(S) == ScanWith(plan, S)

\* The rows of table books, available or not
AllBooks == {b \in BookIds : Exists(b)}

AvailableBooks == {b \in BookIds : Exists(b) /\ books[b].available}

\* UserInteraction.query.filter_by(user_id=user_id).all(): the distinct rows
InteractionsOf(user_id) == {r \in DOMAIN interactions : r.user_id = user_id}

\* db.func.count(UserInteraction.id) over a set of distinct rows
CountRows(R) == SumOver(R, [r \in R |-> interactions[r]])

\* ------------------------------------------------------------- Python lists
\* list.index(x): the first position of x
Index(seq, x) == CHOOSE i \in DOMAIN seq : seq[i] = x /\ \A j \in 1..(i - 1) : seq[j] # x

\* seq[:], the whole list
SliceAll(seq, n) == seq

\* seq[:n], for any integer n
SliceTo(seq, n) ==
    IF n >= 0 THEN SubSeq(seq, 1, IF n < Len(seq) THEN n ELSE Len(seq))
    ELSE SubSeq(seq, 1, IF Len(seq) + n > 0 THEN Len(seq) + n ELSE 0)

\* sorted(items, key=score): ascending, stable
RECURSIVE SortedAsc(_, _)
SortedAsc(seq, score) ==
    IF seq = <<>> THEN <<>>
    ELSE LET i == CHOOSE k \in DOMAIN seq :
                    /\ \A j \in DOMAIN seq : score[seq[j]] >= score[seq[k]]
                    /\ \A j \in 1..(k - 1) : score[seq[j]] > score[seq[k]]
         IN  <<seq[i]>> \o SortedAsc(SubSeq(seq, 1, i - 1) \o SubSeq(seq, i + 1, Len(seq)), score)

\* sorted(items, key=score, reverse=True): stable, equal scores keep their order
RECURSIVE SortedDesc(_, _)
SortedDesc(seq, score) ==
    IF seq = <<>> THEN <<>>
    ELSE LET i == CHOOSE k \in DOMAIN seq :
                    /\ \A j \in DOMAIN seq : score[seq[j]] <= score[seq[k]]
                    /\ \A j \in 1..(k - 1) : score[seq[j]] < score[seq[k]]
         IN  <<seq[i]>> \o SortedDesc(SubSeq(seq, 1, i - 1) \o SubSeq(seq, i + 1, Len(seq)), score)

\* ---------------------------------------------------------------- the engine
\* The text columns of a row
TextColumns(book) == [title |-> book.title, author |-> book.author,
                      category |-> book.category, description |-> book.description]

\* Document, tabulated over the texts the listings hold
DocumentTable ==
    Table([t \in {TextColumns(Listing(b)) : b \in BookIds} |-> Document(t)])

\* The corpus of a list of books: each document with the id of its book
CorpusOf(found) ==
    [i \in DOMAIN found |->
        [id |-> found[i], text |-> DocumentTable[TextColumns(Listing(found[i]))]]]

\* fit_transform, tabulated over the corpora the listings can form
Vectorizers == {DefaultVectorizer, ReducedVectorizer}

FitTable ==
    Table([key \in {CorpusOf(ScanWith(p, S)) : p \in Plans, S \in SUBSET BookIds \ {{}}}
                    \X Vectorizers |->
                fit_transform(key[1], key[2])])

\* build_corpus without lines 67-68: the books found are appended to the
\* book_ids of the earlier snapshot
build_corpus_appending(self) ==
    LET found == Scan(AvailableBooks)
    IN  [corpus |-> [i \in DOMAIN found |->
                        [id |-> found[i],
                         text |-> DocumentTable[TextColumns(BookRow(found[i]))]]],
         self   |-> [self EXCEPT
                        !.book_ids = self.book_ids \o found,
                        !.book_features =
                            [b \in Range(found) |->
                                [title |-> BookRow(b).title, author |-> BookRow(b).author,
                                 category |-> BookRow(b).category,
                                 description |-> BookRow(b).description,
                                 user_id |-> BookRow(b).user_id]] @@ self.book_features]]

\* build_corpus: the corpus and the engine with book_ids and book_features
\* rebuilt.  Column `condition` plays no part in any computation and is left
\* out of book_features.
build_corpus(self) ==
    LET found == Scan(AvailableBooks)
    IN  [corpus |-> [i \in DOMAIN found |->
                        [id |-> found[i],
                         text |-> DocumentTable[TextColumns(BookRow(found[i]))]]],
         self   |-> [self EXCEPT
                        !.book_ids = found,
                        !.book_features =
                            [b \in Range(found) |->
                                [title |-> BookRow(b).title, author |-> BookRow(b).author,
                                 category |-> BookRow(b).category,
                                 description |-> BookRow(b).description,
                                 user_id |-> BookRow(b).user_id]]]]

\* fit_tfidf_model fitting only an engine that has no matrix yet
fit_tfidf_model_once(self) ==
    LET built == build_corpus(self)
        corpus == built.corpus
        chosen == IF Len(corpus) = 1 THEN ReducedVectorizer ELSE built.self.vectorizer
    IN  IF self.tfidf_matrix.fitted
        THEN self
        ELSE IF corpus = <<>>
        THEN [built.self EXCEPT !.tfidf_matrix = [fitted |-> TRUE, rows |-> <<>>]]
        ELSE [built.self EXCEPT
                !.tfidf_matrix = [fitted |-> TRUE, rows |-> FitTable[<<corpus, chosen>>]],
                !.vectorizer = chosen]

\* fit_tfidf_model returning before build_corpus when no book is available:
\* the engine keeps the model of the earlier fit
fit_tfidf_model_keeping(self) ==
    LET built == build_corpus(self)
        corpus == built.corpus
        chosen == IF Len(corpus) = 1 THEN ReducedVectorizer ELSE built.self.vectorizer
    IN  IF corpus = <<>>
        THEN self
        ELSE [built.self EXCEPT
                !.tfidf_matrix = [fitted |-> TRUE, rows |-> FitTable[<<corpus, chosen>>]],
                !.vectorizer = chosen]

\* fit_tfidf_model: the engine after the call
fit_tfidf_model(self) ==
    LET built == build_corpus(self)
        corpus == built.corpus
        chosen == IF Len(corpus) = 1 THEN ReducedVectorizer ELSE built.self.vectorizer
    IN  IF corpus = <<>>
        THEN [built.self EXCEPT !.tfidf_matrix = [fitted |-> TRUE, rows |-> <<>>]]
        ELSE [built.self EXCEPT
                !.tfidf_matrix = [fitted |-> TRUE, rows |-> FitTable[<<corpus, chosen>>]],
                !.vectorizer = chosen]

\* A similarity matrix whose entry [i][j] is the dot product of rows i and j
\* divided by the squared norm of row i alone
compute_similarity_matrix_rowwise(self) ==
    IF ~self.tfidf_matrix.fitted \/ Len(self.tfidf_matrix.rows) = 0 THEN <<>>
    ELSE LET rows == self.tfidf_matrix.rows
             vocab == DOMAIN rows[1].w
             dot(i, j) == SumOver(vocab, [f \in vocab |-> rows[i].w[f] * rows[j].w[f]])
         IN  [i \in DOMAIN rows |-> [j \in DOMAIN rows |->
                IF dot(i, i) = 0 THEN 0 ELSE (dot(i, j) * 1000) \div dot(i, i)]]

\* cosine_similarity(matrix): entry [i][j] is the cosine of rows i and j.
\* Tabulated over the matrices a fit can produce.
SimilarityTable ==
    Table([rows \in {FitTable[key] : key \in DOMAIN FitTable} |->
            Table([i \in DOMAIN rows |->
                Table([j \in DOMAIN rows |-> Cosine(rows[i], rows[j])])])])

\* compute_similarity_matrix: the cosine matrix of the fitted rows
compute_similarity_matrix(self) ==
    IF ~self.tfidf_matrix.fitted \/ Len(self.tfidf_matrix.rows) = 0 THEN <<>>
    ELSE SimilarityTable[self.tfidf_matrix.rows]

\* calculate_content_similarity without the test target_id != book_id of
\* line 220
calculate_content_similarity_with_self(self, book_id, target_books) ==
    IF book_id \notin Range(self.book_ids) THEN <<>>
    ELSE LET book_index == Index(self.book_ids, book_id)
             similarity_matrix == compute_similarity_matrix(self)
             keys == {t \in Range(target_books) : t \in Range(self.book_ids)}
         IN  IF Len(similarity_matrix) = 0 THEN <<>>
             ELSE Table([t \in keys |->
                            similarity_matrix[book_index][Index(self.book_ids, t)]])

\* calculate_content_similarity: the dict target id -> similarity
calculate_content_similarity(self, book_id, target_books) ==
    IF book_id \notin Range(self.book_ids) THEN <<>>
    ELSE LET book_index == Index(self.book_ids, book_id)
             similarity_matrix == compute_similarity_matrix(self)
             keys == {t \in Range(target_books) : t \in Range(self.book_ids) /\ t # book_id}
         IN  IF Len(similarity_matrix) = 0 THEN <<>>
             ELSE Table([t \in keys |->
                            similarity_matrix[book_index][Index(self.book_ids, t)]])

\* dict.get(key, 0)
Get(dict, key) == IF key \in DOMAIN dict THEN dict[key] ELSE 0

\* interaction_weights, doubled: view 1.0, like 2.0, request 3.0, search 0.5
interaction_weights == [view |-> 2, like |-> 4, request |-> 6, search |-> 1]

\* build_user_profile returns {} for a user without interactions
EmptyProfile == [empty |-> TRUE, categories |-> <<>>, authors |-> <<>>, interaction_count |-> 0]

\* build_user_profile reading category and author from the engine's
\* book_features instead of Book.query.get: a book outside the snapshot is
\* skipped
build_user_profile_from_features(self, user_id) ==
    LET mine == InteractionsOf(user_id)
        found == {r \in mine : r.book_id \in DOMAIN self.book_features}
        weight == [r \in found |-> interactions[r] * interaction_weights[r.interaction_type]]
        category_scores ==
            Table([c \in {self.book_features[r.book_id].category : r \in found} |->
                    SumOver({r \in found : self.book_features[r.book_id].category = c}, weight)])
        author_scores ==
            Table([a \in {self.book_features[r.book_id].author : r \in found} |->
                    SumOver({r \in found : self.book_features[r.book_id].author = a}, weight)])
        sum_categories == SumOver(DOMAIN category_scores, category_scores)
        sum_authors == SumOver(DOMAIN author_scores, author_scores)
        total_category_score == IF sum_categories = 0 THEN 1 ELSE sum_categories
        total_author_score == IF sum_authors = 0 THEN 1 ELSE sum_authors
    IN  IF mine = {} THEN EmptyProfile
        ELSE [empty |-> FALSE,
              categories |-> Table([c \in DOMAIN category_scores |->
                                (category_scores[c] * 1000000) \div total_category_score]),
              authors |-> Table([a \in DOMAIN author_scores |->
                                (author_scores[a] * 1000000) \div total_author_score]),
              interaction_count |-> CountRows(mine)]

\* build_user_profile dividing each score by the number of interactions
\* instead of the sum of the scores
build_user_profile_by_count(self, user_id) ==
    LET mine == InteractionsOf(user_id)
        found == {r \in mine : Exists(r.book_id)}
        weight == [r \in found |-> interactions[r] * interaction_weights[r.interaction_type]]
        category_scores ==
            Table([c \in {BookRow(r.book_id).category : r \in found} |->
                    SumOver({r \in found : BookRow(r.book_id).category = c}, weight)])
        author_scores ==
            Table([a \in {BookRow(r.book_id).author : r \in found} |->
                    SumOver({r \in found : BookRow(r.book_id).author = a}, weight)])
    IN  IF mine = {} THEN EmptyProfile
        ELSE [empty |-> FALSE,
              categories |-> Table([c \in DOMAIN category_scores |->
                                (category_scores[c] * 1000000) \div (2 * CountRows(mine))]),
              authors |-> Table([a \in DOMAIN author_scores |->
                                (author_scores[a] * 1000000) \div (2 * CountRows(mine))]),
              interaction_count |-> CountRows(mine)]

\* build_user_profile giving every interaction type the weight 1.0
build_user_profile_unweighted(self, user_id) ==
    LET mine == InteractionsOf(user_id)
        found == {r \in mine : Exists(r.book_id)}
        weight == [r \in found |-> interactions[r]]
        category_scores ==
            Table([c \in {BookRow(r.book_id).category : r \in found} |->
                    SumOver({r \in found : BookRow(r.book_id).category = c}, weight)])
        author_scores ==
            Table([a \in {BookRow(r.book_id).author : r \in found} |->
                    SumOver({r \in found : BookRow(r.book_id).author = a}, weight)])
        sum_categories == SumOver(DOMAIN category_scores, category_scores)
        sum_authors == SumOver(DOMAIN author_scores, author_scores)
        total_category_score == IF sum_categories = 0 THEN 1 ELSE sum_categories
        total_author_score == IF sum_authors = 0 THEN 1 ELSE sum_authors
    IN  IF mine = {} THEN EmptyProfile
        ELSE [empty |-> FALSE,
              categories |-> Table([c \in DOMAIN category_scores |->
                                (category_scores[c] * 1000000) \div total_category_score]),
              authors |-> Table([a \in DOMAIN author_scores |->
                                (author_scores[a] * 1000000) \div total_author_score]),
              interaction_count |-> CountRows(mine)]

\* build_user_profile: weights in millionths.  The method reads the two
\* tables and no field of the engine, and assigns nothing.
build_user_profile(self, user_id) ==
    LET mine == InteractionsOf(user_id)
        found == {r \in mine : Exists(r.book_id)}
        weight == [r \in found |-> interactions[r] * interaction_weights[r.interaction_type]]
        category_scores ==
            Table([c \in {BookRow(r.book_id).category : r \in found} |->
                    SumOver({r \in found : BookRow(r.book_id).category = c}, weight)])
        author_scores ==
            Table([a \in {BookRow(r.book_id).author : r \in found} |->
                    SumOver({r \in found : BookRow(r.book_id).author = a}, weight)])
        sum_categories == SumOver(DOMAIN category_scores, category_scores)
        sum_authors == SumOver(DOMAIN author_scores, author_scores)
        total_category_score == IF sum_categories = 0 THEN 1 ELSE sum_categories
        total_author_score == IF sum_authors = 0 THEN 1 ELSE sum_authors
    IN  IF mine = {} THEN EmptyProfile
        ELSE [empty |-> FALSE,
              categories |-> Table([c \in DOMAIN category_scores |->
                                (category_scores[c] * 1000000) \div total_category_score]),
              authors |-> Table([a \in DOMAIN author_scores |->
                                (author_scores[a] * 1000000) \div total_author_score]),
              interaction_count |-> CountRows(mine)]

\* A set of ids as a list
RECURSIVE ListOf(_)
ListOf(S) ==
    IF S = {} THEN <<>>
    ELSE LET x == CHOOSE y \in S : \A z \in S : y <= z IN <<x>> \o ListOf(S \ {x})

\* _calculate_user_content_similarity dividing the sum by the number of like
\* and request records instead of the number of similarities found
calculate_user_content_similarity_per_record(self, user_id, book_id) ==
    LET liked_interactions ==
            {r \in InteractionsOf(user_id) : r.interaction_type \in {"like", "request"}}
        liked_book_ids == ListOf({r.book_id : r \in liked_interactions})
        similarities == calculate_content_similarity(self, book_id, liked_book_ids)
    IN  IF liked_interactions = {} THEN 0
        ELSE IF DOMAIN similarities = {} THEN 0
        ELSE (SumOver(DOMAIN similarities, similarities) * 1000)
                \div CountRows(liked_interactions)

\* _calculate_user_content_similarity: the mean similarity, in millionths
calculate_user_content_similarity(self, user_id, book_id) ==
    LET liked_interactions ==
            {r \in InteractionsOf(user_id) : r.interaction_type \in {"like", "request"}}
        liked_book_ids == ListOf({r.book_id : r \in liked_interactions})
        similarities == calculate_content_similarity(self, book_id, liked_book_ids)
    IN  IF liked_interactions = {} THEN 0
        ELSE IF DOMAIN similarities = {} THEN 0
        ELSE (SumOver(DOMAIN similarities, similarities) * 1000)
                \div Cardinality(DOMAIN similarities)

\* _generate_reason mentioning a preference of 0.1 or more
generate_reason_at_least(user_profile, book) ==
    LET category_pref == Get(user_profile.categories, book.category)
        author_pref == Get(user_profile.authors, book.author)
        reasons == (IF category_pref >= 100000 THEN <<"interest in category">> ELSE <<>>)
                   \o (IF author_pref >= 100000 THEN <<"liked author">> ELSE <<>>)
    IN  [prefix |-> "Recommended because",
         reasons |-> IF reasons = <<>> THEN <<"reading preferences">> ELSE reasons]

\* _generate_reason: the clauses joined by " and " after "Recommended because"
generate_reason(user_profile, book) ==
    LET category_pref == Get(user_profile.categories, book.category)
        author_pref == Get(user_profile.authors, book.author)
        reasons == (IF category_pref > 100000 THEN <<"interest in category">> ELSE <<>>)
                   \o (IF author_pref > 100000 THEN <<"liked author">> ELSE <<>>)
    IN  [prefix |-> "Recommended because",
         reasons |-> IF reasons = <<>> THEN <<"reading preferences">> ELSE reasons]

\* What a negative LIMIT does: MySQL rejects the statement, SQLite returns
\* every row.
Dialects == {"mysql", "sqlite"}

\* _get_popular_books without the ORDER BY of line 370
get_popular_books_unordered(num_books, dialect) ==
    LET count == Table([b \in AvailableBooks |->
                    CountRows({r \in DOMAIN interactions : r.book_id = b})])
        ordered == Scan(AvailableBooks)
        popular_books == IF num_books < 0 THEN ordered
                         ELSE SubSeq(ordered, 1, IF num_books < Len(ordered)
                                                 THEN num_books ELSE Len(ordered))
    IN  IF num_books < 0 /\ dialect = "mysql"
        THEN [status |-> "error", path |-> "popular", recommendations |-> <<>>]
        ELSE [status |-> "ok", path |-> "popular",
              recommendations |->
                Table([i \in DOMAIN popular_books |->
                    [book |-> to_dict(BookRow(popular_books[i])),
                     relevance_score |-> 500,
                     recommendation_reason |->
                        [prefix |-> "Popular book with",
                         reasons |-> <<count[popular_books[i]]>>]]])]

\* _get_popular_books: GROUP BY book, ORDER BY interaction count DESC, LIMIT
get_popular_books(num_books, dialect) ==
    LET count == Table([b \in AvailableBooks |->
                    CountRows({r \in DOMAIN interactions : r.book_id = b})])
        ordered == SortedDesc(Scan(AvailableBooks), count)
        popular_books == IF num_books < 0 THEN ordered
                         ELSE SubSeq(ordered, 1, IF num_books < Len(ordered)
                                                 THEN num_books ELSE Len(ordered))
    IN  IF num_books < 0 /\ dialect = "mysql"
        THEN [status |-> "error", path |-> "popular", recommendations |-> <<>>]
        ELSE [status |-> "ok", path |-> "popular",
              recommendations |->
                Table([i \in DOMAIN popular_books |->
                    [book |-> to_dict(BookRow(popular_books[i])),
                     relevance_score |-> 500,
                     recommendation_reason |->
                        [prefix |-> "Popular book with",
                         reasons |-> <<count[popular_books[i]]>>]]])]

\* The score of one candidate with the three signals added without their
\* coefficients
book_score_unweighted(self, user_profile, user_id, book) ==
    Get(user_profile.categories, book.category)
        + Get(user_profile.authors, book.author)
        + calculate_user_content_similarity(self, user_id, book.id)

\* The unrounded score of one candidate, in millionths (lines 264-279)
book_score(self, user_profile, user_id, book) ==
    LET category_pref == Get(user_profile.categories, book.category)
        author_pref == Get(user_profile.authors, book.author)
        content_score == calculate_user_content_similarity(self, user_id, book.id)
    IN  (category_pref * 4 + author_pref * 3 + content_score * 3) \div 10

\* The candidates without the filter on the books the user interacted with
candidate_books_seen(user_id, interacted_book_ids) ==
    {b \in AvailableBooks : BookRow(b).user_id # user_id}

\* The candidates of lines 252-256: available, not the user's own, not among
\* the books the user interacted with
candidate_books(user_id, interacted_book_ids) ==
    {b \in AvailableBooks :
        BookRow(b).user_id # user_id /\ b \notin interacted_book_ids}

\* generate_recommendations after line 238: `self` is the fitted engine.
\* Field `path` tells which branch produced the list.
recommend(self, user_id, num_recommendations, dialect) ==
    LET user_profile == build_user_profile(self, user_id)
        interacted_book_ids == {r.book_id : r \in InteractionsOf(user_id)}
        available_books == Scan(candidate_books(user_id, interacted_book_ids))
        book_scores == Table([b \in Range(available_books) |->
                            book_score(self, user_profile, user_id, BookRow(b))])
        sorted_books == SortedDesc(available_books, book_scores)
        top_book_ids == SliceTo(sorted_books, num_recommendations)
    IN  IF user_profile.empty \/ self.book_ids = <<>>
        THEN get_popular_books(num_recommendations, dialect)
        ELSE [status |-> "ok", path |-> "personal",
              recommendations |->
                Table([i \in DOMAIN top_book_ids |->
                    [book |-> to_dict(BookRow(top_book_ids[i])),
                     relevance_score |-> Round3(book_scores[top_book_ids[i]]),
                     recommendation_reason |->
                        generate_reason(user_profile, BookRow(top_book_ids[i]))]])]

\* generate_recommendations scoring with the engine as it was before the fit
generate_recommendations_unfitted(self, user_id, num_recommendations, dialect) ==
    [self |-> fit_tfidf_model(self),
     result |-> recommend(self, user_id, num_recommendations, dialect)]

\* generate_recommendations: the engine after the call and the list returned
generate_recommendations(self, user_id, num_recommendations, dialect) ==
    LET fitted == fit_tfidf_model(self)
    IN  [self |-> fitted,
         result |-> recommend(fitted, user_id, num_recommendations, dialect)]

\* get_similar_books without the filter Book.user_id != user_id of line 119
similar_books_with_own(self, user_id, book_id, limit) ==
    IF ~Exists(book_id)
    THEN [self |-> self, status |-> 404, similar_books |-> <<>>]
    ELSE LET fitted == fit_tfidf_model(self)
             available_books == Scan({b \in AvailableBooks : b # book_id})
             similarities == calculate_content_similarity(fitted, book_id, available_books)
             items == SelectSeq(available_books, LAMBDA b : b \in DOMAIN similarities)
             sorted_similarities == SliceTo(SortedDesc(items, similarities), limit)
         IN  [self |-> fitted, status |-> 200,
              similar_books |->
                Table([i \in DOMAIN sorted_similarities |->
                    [book |-> to_dict(BookRow(sorted_similarities[i])),
                     similarity_score |->
                        Round3(similarities[sorted_similarities[i]] * 1000)]])]

\* get_similar_books, lines 104-162: the engine after the request and the
\* response
similar_books(self, user_id, book_id, limit) ==
    IF ~Exists(book_id)
    THEN [self |-> self, status |-> 404, similar_books |-> <<>>]
    ELSE LET fitted == fit_tfidf_model(self)
             available_books ==
                Scan({b \in AvailableBooks : b # book_id /\ BookRow(b).user_id # user_id})
             similarities == calculate_content_similarity(fitted, book_id, available_books)
             items == SelectSeq(available_books, LAMBDA b : b \in DOMAIN similarities)
             sorted_similarities == SliceTo(SortedDesc(items, similarities), limit)
         IN  [self |-> fitted, status |-> 200,
              similar_books |->
                Table([i \in DOMAIN sorted_similarities |->
                    [book |-> to_dict(BookRow(sorted_similarities[i])),
                     similarity_score |->
                        Round3(similarities[sorted_similarities[i]] * 1000)]])]

\* ------------------------------------------------------------- the requests
SetEngine(self) ==
    /\ vectorizer' = self.vectorizer
    /\ tfidf_matrix' = self.tfidf_matrix
    /\ book_ids' = self.book_ids
    /\ book_features' = self.book_features

\* POST /api/books: the row gets the next id and is available by default
create_book ==
    /\ next_book_id <= MaxBooks
    /\ books' = [books EXCEPT ![next_book_id] = [exists |-> TRUE, available |-> TRUE]]
    /\ next_book_id' = next_book_id + 1
    /\ UNCHANGED <<interactions, plan, exchange_vars, engine_vars, thread_vars>>

\* PUT /api/admin/books/<id>/moderate.  'reject' and 'approve' write column
\* available.  'remove' deletes the row: relationships Book.interactions and
\* Book.exchange_requests have no delete cascade, so the flush first sets
\* book_id of the book's interactions and exchange requests to NULL; the
\* column is NOT NULL, the flush fails and the request is rolled back.
ModerationActions == {"approve", "reject", "remove"}

moderate_book(book_id, action) ==
    /\ Exists(book_id)
    /\ books' =
            CASE action = "remove" ->
                    IF \/ \E r \in DOMAIN interactions : r.book_id = book_id
                       \/ \E e \in DOMAIN exchanges : exchanges[e].book_id = book_id
                    THEN books
                    ELSE [books EXCEPT ![book_id] = [exists |-> FALSE, available |-> FALSE]]
              [] action = "reject" -> [books EXCEPT ![book_id].available = FALSE]
              [] OTHER -> [books EXCEPT ![book_id].available = TRUE]
    /\ UNCHANGED <<next_book_id, interactions, plan, exchange_vars, engine_vars, thread_vars>>

\* POST /api/interactions.  A 'view' is dropped when the same user viewed the
\* same book in the last five minutes; `recent` says whether an earlier view
\* is that young.
record_interaction(user_id, book_id, interaction_type, recent) ==
    LET row == [user_id |-> user_id, book_id |-> book_id,
                interaction_type |-> interaction_type]
        existing_interaction ==
            interaction_type = "view" /\ recent /\ row \in DOMAIN interactions
    IN  /\ Exists(book_id)
        /\ IF existing_interaction
           THEN UNCHANGED interactions
           ELSE /\ CountRows(DOMAIN interactions) < MaxInteractions
                /\ interactions' =
                        IF row \in DOMAIN interactions
                        THEN [interactions EXCEPT ![row] = @ + 1]
                        ELSE (row :> 1) @@ interactions
        /\ UNCHANGED <<books, next_book_id, plan, exchange_vars, engine_vars, thread_vars>>

\* GET /api/recommendations, and the tests' direct calls of
\* generate_recommendations.  The only statement that writes is the fit of
\* line 238; the tables are only read.  The list the request answers with
\* is generate_recommendations(Self, ...).result, taken in the state the
\* request starts from.
get_recommendations(user_id, num_recommendations, dialect) ==
    /\ SetEngine(fit_tfidf_model(Self))
    /\ UNCHANGED <<db_vars, thread_vars>>

\* GET /api/recommendations/similar/<book_id>?limit=.  The 404 answer of
\* lines 105-110 leaves the engine alone; otherwise line 113 fits it.  The
\* answer is similar_books(Self, ...).
get_similar_books(user_id, book_id, limit) ==
    /\ SetEngine(IF Exists(book_id) THEN fit_tfidf_model(Self) ELSE Self)
    /\ UNCHANGED <<db_vars, thread_vars>>

\* update_model, POST /api/recommendations/refresh.  user_profiles is never
\* written, so clearing it changes nothing.
update_model ==
    /\ SetEngine(fit_tfidf_model(Self))
    /\ UNCHANGED <<db_vars, thread_vars>>

vars == <<books, next_book_id, interactions, plan, exchanges, next_exchange_id,
          vectorizer, tfidf_matrix, book_ids, book_features, pc, local>>

\* The locals of a thread that serves no request
NoLocals == [request |-> "none", user_id |-> 0, book_id |-> 0, found |-> <<>>,
             i |-> 0, target_book_ids |-> <<>>, book_index |-> 0,
             similarity_matrix |-> <<>>, status |-> 0]

Init ==
    /\ books = [b \in BookIds |-> [exists |-> FALSE, available |-> FALSE]]
    /\ next_book_id = 1
    /\ interactions = <<>>
    /\ plan \in Plans
    /\ exchanges = <<>>
    /\ next_exchange_id = 1
    /\ vectorizer = DefaultVectorizer
    /\ tfidf_matrix = NoMatrix
    /\ book_ids = <<>>
    /\ book_features = <<>>
    /\ pc = [t \in Threads |-> "idle"]
    /\ local = [t \in Threads |-> NoLocals]

Next ==
    \/ create_book
    \/ \E b \in BookIds, a \in ModerationActions : moderate_book(b, a)
    \/ \E u \in Users, b \in BookIds, t \in InteractionTypes, r \in BOOLEAN :
            record_interaction(u, b, t, r)
    \/ \E u \in Users, n \in Counts, d \in Dialects : get_recommendations(u, n, d)
    \/ \E u \in Users, b \in BookIds, n \in 1..MaxCount : get_similar_books(u, b, n)
    \/ update_model

Spec == Init /\ [][Next]_vars

\* ------------------------------------------- a server started on full tables
\* The engine is constructed when the module is imported, whatever the
\* tables hold.  Here they hold CatalogueSize books, at most MaxUnavailable
\* of them not available, and at most MaxHistory interaction records.
InteractionRows ==
    [user_id : Users, book_id : BookIds, interaction_type : InteractionTypes]

\* One more record of a kind
WithRecord(history, row) ==
    IF row \in DOMAIN history THEN [history EXCEPT ![row] = @ + 1]
    ELSE (row :> 1) @@ history

RECURSIVE Histories(_)
Histories(k) ==
    IF k = 0 THEN {<<>>}
    ELSE LET shorter == Histories(k - 1)
         IN  shorter \cup {WithRecord(h, row) : h \in shorter, row \in InteractionRows}

InitPopulated ==
    /\ \E hidden \in {S \in SUBSET BookIds : Cardinality(S) <= MaxUnavailable} :
            books = [b \in BookIds |-> [exists |-> TRUE, available |-> b \notin hidden]]
    /\ next_book_id = CatalogueSize + 1
    /\ interactions \in Histories(MaxHistory)
    /\ plan \in Plans
    /\ exchanges = <<>>
    /\ next_exchange_id = 1
    /\ vectorizer = DefaultVectorizer
    /\ tfidf_matrix = NoMatrix
    /\ book_ids = <<>>
    /\ book_features = <<>>
    /\ pc = [t \in Threads |-> "idle"]
    /\ local = [t \in Threads |-> NoLocals]

NextPopulated ==
    \/ \E u \in Users, b \in BookIds, t \in InteractionTypes, r \in BOOLEAN :
            record_interaction(u, b, t, r)
    \/ \E u \in Users, n \in Counts, d \in Dialects : get_recommendations(u, n, d)
    \/ \E u \in Users, b \in BookIds, n \in 1..MaxCount : get_similar_books(u, b, n)
    \/ update_model

SpecPopulated == InitPopulated /\ [][NextPopulated]_vars

\* ------------------------------- one reader with a longer history
\* The tables hold CatalogueSize listings, all available, and up to
\* MaxLongHistory interaction records of the first user.  The newest
\* MaxMissing listings may have been deleted under their interaction rows:
\* the tests' SQLite database does not enforce the foreign key, and
\* build_user_profile (line 168) provides for an interaction whose book is
\* gone.  The queries are answered in primary-key order.
Reader == 1

RECURSIVE ReaderHistories(_)
ReaderHistories(k) ==
    IF k = 0 THEN {<<>>}
    ELSE LET shorter == ReaderHistories(k - 1)
         IN  shorter \cup {WithRecord(h, row) :
                            h \in shorter, row \in {r \in InteractionRows : r.user_id = Reader}}

InitHistory ==
    /\ \E missing \in 0..MaxMissing :
            books = [b \in BookIds |-> [exists |-> b <= CatalogueSize - missing,
                                       available |-> b <= CatalogueSize - missing]]
    /\ next_book_id = CatalogueSize + 1
    /\ interactions \in ReaderHistories(MaxLongHistory)
    /\ plan = "primary"
    /\ exchanges = <<>>
    /\ next_exchange_id = 1
    /\ vectorizer = DefaultVectorizer
    /\ tfidf_matrix = NoMatrix
    /\ book_ids = <<>>
    /\ book_features = <<>>
    /\ pc = [t \in Threads |-> "idle"]
    /\ local = [t \in Threads |-> NoLocals]

NextHistory ==
    \/ \E u \in Users, b \in BookIds, t \in InteractionTypes, r \in BOOLEAN :
            record_interaction(u, b, t, r)
    \/ \E u \in Users, n \in Counts, d \in Dialects : get_recommendations(u, n, d)
    \/ \E u \in Users, b \in BookIds, n \in 1..MaxCount : get_similar_books(u, b, n)
    \/ update_model

SpecHistory == InitHistory /\ [][NextHistory]_vars

\* --------------------------------------------------- the exchange requests
\* get_jwt_identity() returns the subject of the request's token.
\* generate_tokens (utils/auth.py, line 74) writes it as str(user_id); field
\* `text` says whether the subject is that string or the integer itself.
Subjects == [user_id : Users, text : BOOLEAN]

\* Python's == between an integer column and the subject: 1 == "1" is False
SameUser(column, subject) == ~subject.text /\ column = subject.user_id

\* The subject in a SQL comparison or as a column value: the database
\* converts the string to the integer
AsColumn(subject) == subject.user_id

ExchangeStatuses == {"pending", "approved", "rejected", "completed"}

\* ExchangeRequestUpdateSchema: the statuses a PUT may ask for
UpdateStatuses == {"approved", "rejected", "completed"}

\* The table constraints without unique_active_request
Accepted_check_only(table) ==
    \A e \in DOMAIN table : table[e].requester_id # table[e].owner_id

\* The constraints of table exchange_requests: requester_id != owner_id
\* (different_users_check) and UNIQUE (requester_id, book_id, status)
\* (unique_active_request).  A commit that breaks one raises IntegrityError.
Accepted(table) ==
    /\ \A e \in DOMAIN table : table[e].requester_id # table[e].owner_id
    /\ \A e, f \in DOMAIN table :
            (/\ table[e].requester_id = table[f].requester_id
             /\ table[e].book_id = table[f].book_id
             /\ table[e].status = table[f].status) => e = f

\* The table without some rows
Without(table, gone) == [e \in DOMAIN table \ gone |-> table[e]]

\* ExchangeRequest.query.filter(book_id == b, id != e,
\* status.in_(['pending', 'approved'])).count()
other_active_requests(table, e, b) ==
    Cardinality({f \in DOMAIN table :
                    /\ table[f].book_id = b
                    /\ f # e
                    /\ table[f].status \in {"pending", "approved"}})

\* ExchangeRequest.query.filter_by(book_id=b, status='pending').all()
pending_requests(b) ==
    {e \in DOMAIN exchanges : exchanges[e].book_id = b /\ exchanges[e].status = "pending"}

\* The commit of a request that leaves the two tables as given; an
\* IntegrityError rolls the request back
Commit(new_books, new_exchanges) ==
    IF Accepted(new_exchanges)
    THEN books' = new_books /\ exchanges' = new_exchanges
    ELSE UNCHANGED <<books, exchanges>>

\* POST /api/exchanges, lines 77-129: 404 for a missing book, 400 for an
\* unavailable book or the requester's own, 409 for a pending request of
\* the same requester for the book; otherwise the insert
create_exchange(subject, book_id) ==
    LET row == [requester_id |-> AsColumn(subject),
                owner_id |-> BookRow(book_id).user_id,
                book_id |-> book_id, status |-> "pending"]
        table == (next_exchange_id :> row) @@ exchanges
    IN  /\ Exists(book_id)
        /\ books[book_id].available
        /\ ~SameUser(BookRow(book_id).user_id, subject)
        /\ ~\E e \in pending_requests(book_id) :
                exchanges[e].requester_id = AsColumn(subject)
        /\ next_exchange_id <= MaxExchanges
        /\ IF Accepted(table)
           THEN exchanges' = table /\ next_exchange_id' = next_exchange_id + 1
           ELSE UNCHANGED exchange_vars
        /\ UNCHANGED <<books, next_book_id, interactions, plan, engine_vars, thread_vars>>

\* PUT /api/exchanges/<id> accepting a request in any status
update_exchange_any(subject, exchange_id, new_status) ==
    /\ exchange_id \in DOMAIN exchanges
    /\ LET exchange == exchanges[exchange_id]
           table == [exchanges EXCEPT ![exchange_id].status = new_status]
       IN  /\ IF new_status \in {"approved", "rejected"}
              THEN SameUser(exchange.owner_id, subject)
              ELSE SameUser(exchange.requester_id, subject)
                        \/ SameUser(exchange.owner_id, subject)
           /\ Commit(books, table)
    /\ UNCHANGED <<next_book_id, interactions, plan, next_exchange_id,
                   engine_vars, thread_vars>>

\* PUT /api/exchanges/<id>, lines 153-230: 403 unless the subject is the
\* owner (approve, reject) or a party (complete), 400 for a rejected or
\* completed request and for completing one that is not approved; then the
\* status is written, completing makes the book unavailable and rejecting
\* makes it available when no other request for it is pending or approved
update_exchange(subject, exchange_id, new_status) ==
    /\ exchange_id \in DOMAIN exchanges
    /\ LET exchange == exchanges[exchange_id]
           table == [exchanges EXCEPT ![exchange_id].status = new_status]
           b == exchange.book_id
       IN  /\ IF new_status \in {"approved", "rejected"}
              THEN SameUser(exchange.owner_id, subject)
              ELSE SameUser(exchange.requester_id, subject)
                        \/ SameUser(exchange.owner_id, subject)
           /\ exchange.status \notin {"rejected", "completed"}
           /\ new_status = "completed" => exchange.status = "approved"
           /\ Commit(CASE new_status = "completed" /\ Exists(b) ->
                            [books EXCEPT ![b].available = FALSE]
                       [] /\ new_status = "rejected" /\ Exists(b)
                          /\ other_active_requests(table, exchange_id, b) = 0 ->
                            [books EXCEPT ![b].available = TRUE]
                       [] OTHER -> books,
                     table)
    /\ UNCHANGED <<next_book_id, interactions, plan, next_exchange_id,
                   engine_vars, thread_vars>>

\* DELETE /api/exchanges/<id>/cancel, lines 315-356: only the requester,
\* only a pending request; the row is deleted and the book made available
\* when no other request for it is pending or approved
cancel_exchange(subject, exchange_id) ==
    /\ exchange_id \in DOMAIN exchanges
    /\ LET exchange == exchanges[exchange_id]
           table == Without(exchanges, {exchange_id})
           b == exchange.book_id
       IN  /\ SameUser(exchange.requester_id, subject)
           /\ exchange.status = "pending"
           /\ Commit(IF Exists(b) /\ other_active_requests(table, exchange_id, b) = 0
                     THEN [books EXCEPT ![b].available = TRUE]
                     ELSE books,
                     table)
    /\ UNCHANGED <<next_book_id, interactions, plan, next_exchange_id,
                   engine_vars, thread_vars>>

\* PUT /api/exchanges/book/<id>/availability without lines 407-415
update_book_availability_only(subject, book_id, new_availability) ==
    /\ Exists(book_id)
    /\ SameUser(BookRow(book_id).user_id, subject)
    /\ Commit([books EXCEPT ![book_id].available = new_availability], exchanges)
    /\ UNCHANGED <<next_book_id, interactions, plan, next_exchange_id,
                   engine_vars, thread_vars>>

\* PUT /api/exchanges/book/<id>/availability, lines 375-419: only the
\* owner; taking an available book out rejects its pending requests
update_book_availability(subject, book_id, new_availability) ==
    /\ Exists(book_id)
    /\ SameUser(BookRow(book_id).user_id, subject)
    /\ Commit([books EXCEPT ![book_id].available = new_availability],
              IF ~new_availability /\ books[book_id].available
              THEN [e \in DOMAIN exchanges |->
                        IF e \in pending_requests(book_id)
                        THEN [exchanges[e] EXCEPT !.status = "rejected"]
                        ELSE exchanges[e]]
              ELSE exchanges)
    /\ UNCHANGED <<next_book_id, interactions, plan, next_exchange_id,
                   engine_vars, thread_vars>>

\* PUT /api/books/<id>, lines 266-293, for a body that carries field
\* `available` (BookUpdateSchema): only the owner; the field is written
update_book(subject, book_id, available) ==
    /\ Exists(book_id)
    /\ SameUser(BookRow(book_id).user_id, subject)
    /\ books' = [books EXCEPT ![book_id].available = available]
    /\ UNCHANGED <<next_book_id, interactions, plan, exchange_vars,
                   engine_vars, thread_vars>>

\* DELETE /api/books/<id>, lines 318-351: only the owner.  The pending
\* requests of the book are set to rejected and flushed, all its requests
\* are deleted, then the book; its interactions stop the delete as in
\* moderate_book.
delete_book(subject, book_id) ==
    /\ Exists(book_id)
    /\ SameUser(BookRow(book_id).user_id, subject)
    /\ LET flushed == [e \in DOMAIN exchanges |->
                        IF e \in pending_requests(book_id)
                        THEN [exchanges[e] EXCEPT !.status = "rejected"]
                        ELSE exchanges[e]]
       IN  IF Accepted(flushed) /\ ~\E r \in DOMAIN interactions : r.book_id = book_id
           THEN /\ exchanges' =
                        Without(exchanges,
                                {e \in DOMAIN exchanges : exchanges[e].book_id = book_id})
                /\ books' = [books EXCEPT ![book_id] = [exists |-> FALSE,
                                                        available |-> FALSE]]
           ELSE UNCHANGED <<books, exchanges>>
    /\ UNCHANGED <<next_book_id, interactions, plan, next_exchange_id,
                   engine_vars, thread_vars>>

\* The server with the catalogue listed and no exchange request yet
InitExchange ==
    /\ books = [b \in BookIds |-> [exists |-> TRUE, available |-> TRUE]]
    /\ next_book_id = CatalogueSize + 1
    /\ interactions = <<>>
    /\ plan = "primary"
    /\ exchanges = <<>>
    /\ next_exchange_id = 1
    /\ vectorizer = DefaultVectorizer
    /\ tfidf_matrix = NoMatrix
    /\ book_ids = <<>>
    /\ book_features = <<>>
    /\ pc = [t \in Threads |-> "idle"]
    /\ local = [t \in Threads |-> NoLocals]

NextExchange ==
    \/ \E s \in Subjects, b \in BookIds : create_exchange(s, b)
    \/ \E s \in Subjects, e \in 1..MaxExchanges, n \in UpdateStatuses :
            update_exchange(s, e, n)
    \/ \E s \in Subjects, e \in 1..MaxExchanges : cancel_exchange(s, e)
    \/ \E s \in Subjects, b \in BookIds, a \in BOOLEAN : update_book_availability(s, b, a)
    \/ \E s \in Subjects, b \in BookIds, a \in BOOLEAN : update_book(s, b, a)
    \/ \E s \in Subjects, b \in BookIds : delete_book(s, b)
    \/ \E b \in BookIds, a \in ModerationActions : moderate_book(b, a)

SpecExchange == InitExchange /\ [][NextExchange]_vars

\* ------------------------------------------- requests served concurrently
\* The development server serves each request on its own thread, and the
\* threads share the module-level recommendation_engine.  A thread runs the
\* statements of fit_tfidf_model and calculate_content_similarity one step
\* at a time; the steps of different threads interleave.  Books are added
\* while the requests run, and the similar-books requests are those of user 1.

Goto(t, label, locals) ==
    /\ pc' = [pc EXCEPT ![t] = label]
    /\ local' = [local EXCEPT ![t] = locals]

\* The response is sent: the thread is free again
Respond(t, status) == Goto(t, "idle", [NoLocals EXCEPT !.status = status])

\* POST /api/recommendations/refresh arrives
begin_refresh(t) ==
    /\ pc[t] = "idle"
    /\ Goto(t, "query", [NoLocals EXCEPT !.request = "refresh"])
    /\ UNCHANGED <<db_vars, engine_vars>>

\* GET /api/recommendations/similar/<book_id> arrives; lines 104-110
begin_similar(t, user_id, book_id) ==
    /\ pc[t] = "idle"
    /\ IF ~Exists(book_id)
       THEN Respond(t, 404)
       ELSE Goto(t, "query", [NoLocals EXCEPT !.request = "similar",
                                              !.user_id = user_id,
                                              !.book_id = book_id])
    /\ UNCHANGED <<db_vars, engine_vars>>

\* build_corpus, line 65: books = Book.query.filter_by(available=True).all()
query_books(t) ==
    /\ pc[t] = "query"
    /\ Goto(t, "reset", [local[t] EXCEPT !.found = Scan(AvailableBooks), !.i = 1])
    /\ UNCHANGED <<db_vars, engine_vars>>

\* build_corpus, lines 67-68: self.book_ids = []; self.book_features = {}
reset_book_ids(t) ==
    /\ pc[t] = "reset"
    /\ book_ids' = <<>>
    /\ book_features' = <<>>
    /\ Goto(t, "loop", local[t])
    /\ UNCHANGED <<db_vars, vectorizer, tfidf_matrix>>

\* build_corpus, lines 70-89: one iteration of the loop
append_book(t) ==
    /\ pc[t] = "loop"
    /\ local[t].i <= Len(local[t].found)
    /\ LET b == local[t].found[local[t].i]
       IN  /\ book_ids' = Append(book_ids, b)
           /\ book_features' =
                (b :> [title |-> Listing(b).title, author |-> Listing(b).author,
                       category |-> Listing(b).category,
                       description |-> Listing(b).description,
                       user_id |-> Listing(b).user_id]) @@ book_features
    /\ Goto(t, "loop", [local[t] EXCEPT !.i = @ + 1])
    /\ UNCHANGED <<db_vars, vectorizer, tfidf_matrix>>

\* fit_tfidf_model, lines 99-121, with the corpus the loop collected; then
\* the request goes on: recommendations.py line 116, or the response of
\* refresh_recommendations
fit_corpus(t) ==
    /\ pc[t] = "loop"
    /\ local[t].i > Len(local[t].found)
    /\ LET corpus == CorpusOf(local[t].found)
           chosen == IF Len(corpus) = 1 THEN ReducedVectorizer ELSE vectorizer
       IN  IF corpus = <<>>
           THEN /\ tfidf_matrix' = [fitted |-> TRUE, rows |-> <<>>]
                /\ UNCHANGED vectorizer
           ELSE /\ tfidf_matrix' = [fitted |-> TRUE, rows |-> FitTable[<<corpus, chosen>>]]
                /\ vectorizer' = chosen
    /\ IF local[t].request = "refresh"
       THEN Respond(t, 200)
       ELSE Goto(t, "candidates", local[t])
    /\ UNCHANGED <<db_vars, book_ids, book_features>>

\* get_similar_books, lines 116-133
query_candidates(t) ==
    /\ pc[t] = "candidates"
    /\ LET available_books ==
                Scan({b \in AvailableBooks :
                        b # local[t].book_id /\ BookRow(b).user_id # local[t].user_id})
       IN  IF available_books = <<>>
           THEN Respond(t, 200)
           ELSE Goto(t, "index", [local[t] EXCEPT !.target_book_ids = available_books])
    /\ UNCHANGED <<db_vars, engine_vars>>

\* calculate_content_similarity, lines 209-212
read_book_index(t) ==
    /\ pc[t] = "index"
    /\ IF local[t].book_id \notin Range(book_ids)
       THEN Respond(t, 200)
       ELSE Goto(t, "matrix",
                 [local[t] EXCEPT !.book_index = Index(book_ids, local[t].book_id)])
    /\ UNCHANGED <<db_vars, engine_vars>>

\* calculate_content_similarity, lines 213-216
read_matrix(t) ==
    /\ pc[t] = "matrix"
    /\ LET similarity_matrix == compute_similarity_matrix(Self)
       IN  IF Len(similarity_matrix) = 0
           THEN Respond(t, 200)
           ELSE Goto(t, "targets",
                     [local[t] EXCEPT !.similarity_matrix = similarity_matrix])
    /\ UNCHANGED <<db_vars, engine_vars>>

\* calculate_content_similarity, lines 218-224: an index past the matrix
\* raises IndexError, which the route turns into status 500
read_targets(t) ==
    /\ pc[t] = "targets"
    /\ LET size == Len(local[t].similarity_matrix)
           indexes == {Index(book_ids, b) :
                        b \in {x \in Range(local[t].target_book_ids) :
                                x \in Range(book_ids) /\ x # local[t].book_id}}
       IN  IF local[t].book_index > size \/ \E k \in indexes : k > size
           THEN Respond(t, 500)
           ELSE Respond(t, 200)
    /\ UNCHANGED <<db_vars, engine_vars>>

ThreadStep(t) ==
    \/ begin_refresh(t)
    \/ \E b \in BookIds : begin_similar(t, 1, b)
    \/ query_books(t)
    \/ reset_book_ids(t)
    \/ append_book(t)
    \/ fit_corpus(t)
    \/ query_candidates(t)
    \/ read_book_index(t)
    \/ read_matrix(t)
    \/ read_targets(t)

NextConc ==
    \/ create_book
    \/ \E t \in Threads : ThreadStep(t)

SpecConc == Init /\ [][NextConc]_vars

\* ------------------------------------- exchange requests made concurrently
\* Each POST /api/exchanges runs on its own thread with its own database
\* session: the read of the book, the query for a pending request and the
\* insert are three statements, and the statements of different requests
\* interleave.  The owner's and the requester's other calls commit in
\* between.

\* POST /api/exchanges arrives; lines 77-104
begin_exchange(t, subject, book_id) ==
    /\ pc[t] = "idle"
    /\ CASE ~Exists(book_id) -> Respond(t, 404)
         [] ~books[book_id].available -> Respond(t, 400)
         [] SameUser(BookRow(book_id).user_id, subject) -> Respond(t, 400)
         [] OTHER -> Goto(t, "existing_request",
                          [NoLocals EXCEPT !.request = "exchange",
                                           !.user_id = AsColumn(subject),
                                           !.book_id = book_id])
    /\ UNCHANGED <<db_vars, engine_vars>>

\* Lines 107-117: the query for a pending request of the requester for the
\* book; 409 when there is one
existing_request(t) ==
    /\ pc[t] = "existing_request"
    /\ IF \E e \in pending_requests(local[t].book_id) :
                exchanges[e].requester_id = local[t].user_id
       THEN Respond(t, 409)
       ELSE Goto(t, "add_exchange", local[t])
    /\ UNCHANGED <<db_vars, engine_vars>>

\* Lines 120-134 and 141-146: the insert and its commit; an IntegrityError
\* rolls back and answers 500
add_exchange(t) ==
    LET row == [requester_id |-> local[t].user_id,
                owner_id |-> BookRow(local[t].book_id).user_id,
                book_id |-> local[t].book_id, status |-> "pending"]
        table == (next_exchange_id :> row) @@ exchanges
    IN  /\ pc[t] = "add_exchange"
        /\ next_exchange_id <= MaxExchanges
        /\ IF Accepted(table)
           THEN /\ exchanges' = table
                /\ next_exchange_id' = next_exchange_id + 1
                /\ Goto(t, "idle", [local[t] EXCEPT !.request = "none", !.status = 201])
           ELSE /\ UNCHANGED exchange_vars
                /\ Goto(t, "idle", [local[t] EXCEPT !.request = "none", !.status = 500])
        /\ UNCHANGED <<books, next_book_id, interactions, plan, engine_vars>>

NextExchangeConc ==
    \/ \E t \in Threads, s \in Subjects, b \in BookIds : begin_exchange(t, s, b)
    \/ \E t \in Threads : existing_request(t)
    \/ \E t \in Threads : add_exchange(t)
    \/ \E s \in Subjects, e \in 1..MaxExchanges, n \in UpdateStatuses :
            update_exchange(s, e, n)
    \/ \E s \in Subjects, e \in 1..MaxExchanges : cancel_exchange(s, e)

\* The server with the first ListedBooks listings on offer and no exchange
\* request yet
InitExchangeConc ==
    /\ books = [b \in BookIds |-> [exists |-> b <= ListedBooks,
                                   available |-> b <= ListedBooks]]
    /\ next_book_id = ListedBooks + 1
    /\ interactions = <<>>
    /\ plan = "primary"
    /\ exchanges = <<>>
    /\ next_exchange_id = 1
    /\ vectorizer = DefaultVectorizer
    /\ tfidf_matrix = NoMatrix
    /\ book_ids = <<>>
    /\ book_features = <<>>
    /\ pc = [t \in Threads |-> "idle"]
    /\ local = [t \in Threads |-> NoLocals]

SpecExchangeConc == InitExchangeConc /\ [][NextExchangeConc]_vars

\* ------------------------------------------ interactions stored concurrently
\* The POST /api/interactions requests of one window of five minutes, each
\* on its own thread: every row stored since the start is younger than
\* recent_cutoff, so the query of lines 214-219 finds a view exactly when
\* the table holds one of the user for the book.  The check of the book,
\* the query and the insert are three statements; table user_interactions
\* has no unique constraint.

\* POST /api/interactions arrives; lines 195-206.  Field request of the
\* thread holds the interaction type of the body.
begin_interaction(t, user_id, book_id, interaction_type) ==
    /\ pc[t] = "idle"
    /\ IF ~Exists(book_id)
       THEN Respond(t, 404)
       ELSE Goto(t, "existing_interaction",
                 [NoLocals EXCEPT !.request = interaction_type,
                                  !.user_id = user_id,
                                  !.book_id = book_id])
    /\ UNCHANGED <<db_vars, engine_vars>>

\* The row a thread is about to store
InteractionOf(t) ==
    [user_id |-> local[t].user_id, book_id |-> local[t].book_id,
     interaction_type |-> local[t].request]

\* Lines 210-225: for a 'view', the query for a view of the user on the
\* book after recent_cutoff; 200 without a write when there is one
existing_interaction(t) ==
    /\ pc[t] = "existing_interaction"
    /\ IF local[t].request = "view" /\ InteractionOf(t) \in DOMAIN interactions
       THEN Respond(t, 200)
       ELSE Goto(t, "add_interaction", local[t])
    /\ UNCHANGED <<db_vars, engine_vars>>

\* Lines 227-244: the insert and its commit
add_interaction(t) ==
    LET row == InteractionOf(t)
    IN  /\ pc[t] = "add_interaction"
        /\ CountRows(DOMAIN interactions) < MaxViews
        /\ interactions' =
                IF row \in DOMAIN interactions
                THEN [interactions EXCEPT ![row] = @ + 1]
                ELSE (row :> 1) @@ interactions
        /\ Respond(t, 201)
        /\ UNCHANGED <<books, next_book_id, plan, exchange_vars, engine_vars>>

NextViews ==
    \/ \E t \in Threads, u \in Users, b \in BookIds, i \in InteractionTypes :
            begin_interaction(t, u, b, i)
    \/ \E t \in Threads : existing_interaction(t)
    \/ \E t \in Threads : add_interaction(t)

SpecViews == InitExchangeConc /\ [][NextViews]_vars

\* ------------------------------------------------------------ the properties
\* The list generate_recommendations(u, n) returns on the current tables
Recommendations(u, n, d) == generate_recommendations(Self, u, n, d).result

\* The response of GET /api/recommendations/similar/<b>?limit=n
SimilarBooks(u, b, n) == similar_books(Self, u, b, n).similar_books

\* The engine was fitted on the tables as they are now: a request ran
Fitted == tfidf_matrix.fitted /\ book_ids = Scan(AvailableBooks)

BookIdsOf(list) == [i \in DOMAIN list |-> list[i].book.id]

NonIncreasing(scores) == \A i \in 1..(Len(scores) - 1) : scores[i] >= scores[i + 1]

HasInteraction(u, b) == \E r \in DOMAIN interactions : r.user_id = u /\ r.book_id = b

\* C1: for every user u and count n >= 1, no book that
\* generate_recommendations(u, n) returns is owned by u, on the personalized
\* path and on the popularity fallback.
NoSelfRecommendation ==
    \A u \in Users, n \in 1..MaxCount, d \in Dialects :
        LET r == Recommendations(u, n, d)
        IN  \A i \in DOMAIN r.recommendations : r.recommendations[i].book.user_id # u

\* C2: two consecutive calls generate_recommendations(u, n) on the same
\* engine, the tables unchanged between them, return the same book ids in
\* the same order.
Idempotence ==
    \A u \in Users, n \in Counts, d \in Dialects :
        LET first == generate_recommendations(Self, u, n, d)
            second == generate_recommendations(first.self, u, n, d)
        IN  /\ second.result.status = first.result.status
            /\ Len(second.result.recommendations) = Len(first.result.recommendations)
            /\ BookIdsOf(second.result.recommendations)
                    = BookIdsOf(first.result.recommendations)

\* A first call has fitted the engine, and a user's personalized list holds
\* two books
IdempotenceWitness ==
    /\ Fitted
    /\ \E u \in Users :
        LET r == Recommendations(u, MaxCount, "mysql")
        IN  r.path = "personal" /\ Len(r.recommendations) >= 2

\* C4: no book that generate_recommendations(u, n) returns is a book for
\* which u has an interaction record of any kind.
NoInteractedBook ==
    \A u \in Users, n \in Counts, d \in Dialects :
        LET r == Recommendations(u, n, d)
        IN  \A i \in DOMAIN r.recommendations :
                ~HasInteraction(u, r.recommendations[i].book.id)

\* A user has an interaction with an available book of another user, and
\* the personalized list of that user holds a book
NoInteractedBookWitness ==
    /\ Fitted
    /\ \E u \in Users :
        /\ \E b \in AvailableBooks : BookRow(b).user_id # u /\ HasInteraction(u, b)
        /\ LET r == Recommendations(u, MaxCount, "mysql")
           IN  r.path = "personal" /\ Len(r.recommendations) >= 1

\* C5: every book that generate_recommendations(u, n) returns exists and is
\* available in the tables the call read, on both paths.
OnlyAvailableBooks ==
    \A u \in Users, n \in Counts, d \in Dialects :
        LET r == Recommendations(u, n, d)
        IN  \A i \in DOMAIN r.recommendations :
                LET book == r.recommendations[i].book
                IN  Exists(book.id) /\ book.available /\ books[book.id].available

\* A book is unavailable, one user gets a personalized list and another the
\* popular list, both with a book in them
OnlyAvailableBooksWitness ==
    /\ Fitted
    /\ \E b \in AllBooks : ~books[b].available
    /\ \E u, v \in Users :
        LET r == Recommendations(u, MaxCount, "mysql")
            p == Recommendations(v, MaxCount, "mysql")
        IN  /\ r.path = "personal" /\ Len(r.recommendations) >= 1
            /\ p.path = "popular" /\ Len(p.recommendations) >= 1

\* C6: for every count n <= 0, generate_recommendations(u, n) returns an
\* empty list and raises no error, with or without interaction history.
NonPositiveCountEmpty ==
    \A u \in Users, n \in Counts, d \in Dialects :
        n <= 0 =>
            LET r == Recommendations(u, n, d)
            IN  r.status = "ok" /\ r.recommendations = <<>>

\* C7: for every count n >= 1, generate_recommendations(u, n) returns at
\* most n entries and get_similar_books with limit n at most n books.
CountBound ==
    \A u \in Users, n \in 1..MaxCount :
        /\ \A d \in Dialects : Len(Recommendations(u, n, d).recommendations) <= n
        /\ \A b \in BookIds : Len(SimilarBooks(u, b, n)) <= n

\* With a count of 1, a user with two candidates gets one recommendation and
\* a book with two similar books one similar book
CountBoundWitness ==
    /\ Fitted
    /\ \E u \in Users :
        /\ LET r == Recommendations(u, 1, "mysql")
           IN  /\ r.path = "personal" /\ Len(r.recommendations) = 1
               /\ Cardinality(candidate_books(u, {x.book_id : x \in InteractionsOf(u)})) >= 2
        /\ \E b \in BookIds :
            Len(SimilarBooks(u, b, 1)) = 1 /\ Len(SimilarBooks(u, b, MaxCount)) >= 2

\* C8: the relevance_score values generate_recommendations returns are
\* non-increasing from first to last, after rounding and on the fallback
\* path, and so are the similarity_score values of get_similar_books.
ScoresNonIncreasing ==
    /\ \A u \in Users, n \in Counts, d \in Dialects :
        LET list == Recommendations(u, n, d).recommendations
        IN  NonIncreasing([i \in DOMAIN list |-> list[i].relevance_score])
    /\ \A u \in Users, b \in BookIds, n \in 1..MaxCount :
        LET list == SimilarBooks(u, b, n)
        IN  NonIncreasing([i \in DOMAIN list |-> list[i].similarity_score])

\* A personalized list of two books with different scores whose first book
\* is not the first candidate the query returned
ScoresNonIncreasingWitness ==
    /\ Fitted
    /\ \E u \in Users :
        LET r == Recommendations(u, MaxCount, "mysql")
            found == Scan(candidate_books(u, {x.book_id : x \in InteractionsOf(u)}))
        IN  /\ r.path = "personal" /\ Len(r.recommendations) >= 2
            /\ r.recommendations[1].relevance_score > r.recommendations[2].relevance_score
            /\ r.recommendations[1].book.id # found[1]

\* C9: every relevance_score generate_recommendations returns lies in
\* [0, 1] (0..1000 thousandths), and the fallback score is 0.5.
ScoreRange ==
    \A u \in Users, n \in Counts, d \in Dialects :
        LET r == Recommendations(u, n, d)
        IN  \A i \in DOMAIN r.recommendations :
                /\ r.recommendations[i].relevance_score >= 0
                /\ r.recommendations[i].relevance_score <= 1000
                /\ r.path = "popular" => r.recommendations[i].relevance_score = 500

\* A personalized list holds a book with score 1.0 and a book with a score
\* strictly between 0 and 1
ScoreRangeWitness ==
    /\ Fitted
    /\ \E u \in Users :
        LET r == Recommendations(u, MaxCount, "mysql")
        IN  /\ r.path = "personal"
            /\ \E i \in DOMAIN r.recommendations :
                    r.recommendations[i].relevance_score = 1000
            /\ \E i \in DOMAIN r.recommendations :
                    /\ r.recommendations[i].relevance_score > 0
                    /\ r.recommendations[i].relevance_score < 1000

\* C10: after fit_tfidf_model, for two distinct books a and b,
\* calculate_content_similarity(a, [b])[b] equals
\* calculate_content_similarity(b, [a])[a], and both results hold the other
\* book's key or neither does.
SimilaritySymmetric ==
    tfidf_matrix.fitted =>
        \A a, b \in BookIds :
            a # b =>
                LET ab == calculate_content_similarity(Self, a, <<b>>)
                    ba == calculate_content_similarity(Self, b, <<a>>)
                IN  /\ (b \in DOMAIN ab) <=> (a \in DOMAIN ba)
                    /\ b \in DOMAIN ab => ab[b] = ba[a]

\* The fitted corpus holds two books whose similarity is strictly between 0
\* and 1, and a book outside the corpus
SimilaritySymmetricWitness ==
    /\ tfidf_matrix.fitted
    /\ \E a, b \in Range(book_ids) :
        /\ a # b
        /\ LET ab == calculate_content_similarity(Self, a, <<b>>)
           IN  b \in DOMAIN ab /\ ab[b] > 0 /\ ab[b] < 1000
    /\ \E c \in AllBooks : c \notin Range(book_ids)

\* The positions at which a thread reads the model
ReadPositions == {"index", "matrix", "targets"}

\* C3: with one engine shared by concurrent requests, at every read
\* book_ids, book_features and tfidf_matrix come from the same completed
\* fit: the matrix has len(book_ids) rows, and row i was fitted from book
\* book_ids[i].
NoPartialModelRead ==
    \A t \in Threads :
        pc[t] \in ReadPositions =>
            /\ tfidf_matrix.fitted
            /\ Len(tfidf_matrix.rows) = Len(book_ids)
            /\ \A i \in DOMAIN book_ids : tfidf_matrix.rows[i].of = book_ids[i]
            /\ DOMAIN book_features = Range(book_ids)

\* The candidate lists of the similarity properties: every list of at most
\* two book ids, repeated ids included
TargetLists == UNION {[1..k -> BookIds] : k \in 0..2}

\* C11: for every reference book x and candidate list C, the keys of
\* calculate_content_similarity(x, C) are the books of C that are in the
\* corpus, without x, when x is in the corpus; the result is empty when x is
\* not in the corpus or C is empty.  Key x never occurs.
SimilarityKeys ==
    \A x \in BookIds, C \in TargetLists :
        LET keys == DOMAIN calculate_content_similarity(Self, x, C)
        IN  /\ x \in Range(book_ids) => keys = (Range(C) \cap Range(book_ids)) \ {x}
            /\ x \notin Range(book_ids) => keys = {}
            /\ C = <<>> => keys = {}
            /\ x \notin keys

\* The fitted corpus holds two books, so that a list naming both gives one
\* key, and a book of the table is outside the corpus
SimilarityKeysWitness ==
    /\ tfidf_matrix.fitted
    /\ Len(book_ids) >= 2
    /\ \E c \in AllBooks : c \notin Range(book_ids)
    /\ DOMAIN calculate_content_similarity(Self, book_ids[1], <<book_ids[1], book_ids[2]>>)
            = {book_ids[2]}

\* C12: when no book is available, fit_tfidf_model (update_model) leaves an
\* empty model, every calculate_content_similarity on it returns an empty
\* map, and generate_recommendations returns an empty list without error
\* for every user and every count n >= 1, with or without interactions.
EmptyCorpus ==
    AvailableBooks = {} =>
        LET fitted == fit_tfidf_model(Self)
        IN  /\ fitted.tfidf_matrix = [fitted |-> TRUE, rows |-> <<>>]
            /\ fitted.book_ids = <<>>
            /\ fitted.book_features = <<>>
            /\ \A x \in BookIds, C \in TargetLists :
                    calculate_content_similarity(fitted, x, C) = <<>>
            /\ \A u \in Users, n \in 1..MaxCount, d \in Dialects :
                    LET r == generate_recommendations(Self, u, n, d).result
                    IN  r.status = "ok" /\ r.recommendations = <<>>

\* No book is available, the table holds a book with an interaction, and
\* the engine still holds the model fitted while books were available
EmptyCorpusWitness ==
    /\ AvailableBooks = {}
    /\ \E u \in Users, b \in AllBooks : HasInteraction(u, b)
    /\ tfidf_matrix.fitted
    /\ Len(book_ids) >= 1

\* The number of interaction records of a book, over all users and kinds
InteractionCount(b) == CountRows({r \in DOMAIN interactions : r.book_id = b})

\* C13: for a user without interaction records and a corpus that is not
\* empty, generate_recommendations returns the popular list: every
\* relevance_score is 0.5, the books' total interaction counts are
\* non-increasing along the list, and each reason states its book's count.
PopularFallback ==
    \A u \in Users, n \in 1..MaxCount, d \in Dialects :
        (InteractionsOf(u) = {} /\ AvailableBooks # {}) =>
            LET r == Recommendations(u, n, d)
                list == r.recommendations
            IN  /\ r.status = "ok"
                /\ r.path = "popular"
                /\ Len(list) >= 1
                /\ \A i \in DOMAIN list :
                    /\ list[i].relevance_score = 500
                    /\ list[i].recommendation_reason =
                            [prefix |-> "Popular book with",
                             reasons |-> <<InteractionCount(list[i].book.id)>>]
                /\ NonIncreasing([i \in DOMAIN list |-> InteractionCount(list[i].book.id)])

\* A user without interactions gets a popular list whose first book has an
\* interaction of another user and is not the first row the query found
PopularFallbackWitness ==
    /\ Fitted
    /\ \E u \in Users :
        /\ InteractionsOf(u) = {}
        /\ LET list == Recommendations(u, MaxCount, "mysql").recommendations
           IN  /\ Len(list) >= 2
               /\ InteractionCount(list[1].book.id) > InteractionCount(list[2].book.id)
               /\ list[1].book.id # Scan(AvailableBooks)[1]

\* C15: after fit_tfidf_model (update_model) book_ids holds each available
\* book id once and no other id, book_features has those ids as keys, and
\* the matrix has one row per entry of book_ids, fitted from that book;
\* nothing of an earlier snapshot remains.
SnapshotMatchesAvailable ==
    LET fitted == fit_tfidf_model(Self)
    IN  /\ Range(fitted.book_ids) = AvailableBooks
        /\ Len(fitted.book_ids) = Cardinality(AvailableBooks)
        /\ DOMAIN fitted.book_features = AvailableBooks
        /\ fitted.tfidf_matrix.fitted
        /\ Len(fitted.tfidf_matrix.rows) = Len(fitted.book_ids)
        /\ \A i \in DOMAIN fitted.book_ids :
                fitted.tfidf_matrix.rows[i].of = fitted.book_ids[i]

\* The engine holds a snapshot with a book that is no longer available, and
\* an available book is not in the snapshot
SnapshotMatchesAvailableWitness ==
    /\ tfidf_matrix.fitted
    /\ \E b \in Range(book_ids) : b \notin AvailableBooks
    /\ \E b \in AvailableBooks : b \notin Range(book_ids)

\* The engine with its vectorizer and without any snapshot
Unfitted == [Self EXCEPT !.tfidf_matrix = NoMatrix, !.book_ids = <<>>,
                         !.book_features = <<>>]

\* C16: generate_recommendations and get_similar_books refit the model from
\* the tables before they look up a similarity: whatever snapshot the
\* engine held, the call leaves book_ids equal to the books available now,
\* and its answer is the one an engine without any snapshot gives.
ImplicitRefresh ==
    /\ \A u \in Users, n \in Counts, d \in Dialects :
        LET call == generate_recommendations(Self, u, n, d)
        IN  /\ call.self.book_ids = Scan(AvailableBooks)
            /\ call.result = generate_recommendations(Unfitted, u, n, d).result
    /\ \A u \in Users, b \in BookIds, n \in 1..MaxCount :
        LET call == similar_books(Self, u, b, n)
        IN  call.status = 200 =>
                /\ call.self.book_ids = Scan(AvailableBooks)
                /\ call.similar_books = similar_books(Unfitted, u, b, n).similar_books

\* The engine holds a snapshot that differs from the available books, a
\* user with a like gets a personalized list and a similar-books answer
\* holds a book
ImplicitRefreshWitness ==
    /\ tfidf_matrix.fitted
    /\ Range(book_ids) # AvailableBooks
    /\ \E u \in Users :
        /\ \E r \in InteractionsOf(u) : r.interaction_type = "like"
        /\ LET r == Recommendations(u, MaxCount, "mysql")
           IN  r.path = "personal" /\ Len(r.recommendations) >= 1
        /\ \E b \in BookIds : Len(SimilarBooks(u, b, MaxCount)) >= 1

\* C18: update_model called twice in succession, the books unchanged, leaves
\* book_ids, book_features and the TF-IDF matrix as they were after the
\* first call.
RefreshIdempotent ==
    LET first == fit_tfidf_model(Self)
        second == fit_tfidf_model(first)
    IN  /\ second.book_ids = first.book_ids
        /\ second.book_features = first.book_features
        /\ second.tfidf_matrix = first.tfidf_matrix

\* A refresh has run on the books as they are now: the model holds two
\* books or more, fitted with the vectorizer an earlier one-book fit left
RefreshIdempotentWitness ==
    /\ Fitted
    /\ Len(book_ids) >= 2
    /\ vectorizer = ReducedVectorizer
    /\ \E b \in AllBooks : ~books[b].available

\* A weight map sums to 1: each weight is rounded down to a millionth, so
\* the sum misses 1000000 by less than one millionth per key
SumsToOne(weights) ==
    LET total == SumOver(DOMAIN weights, weights)
    IN  total <= 1000000 /\ total > 1000000 - Cardinality(DOMAIN weights)

\* C14: the category weights of build_user_profile(u) sum to 1 when the
\* map is not empty, and so do the author weights; every weight is in
\* (0, 1]; a user without interactions gets the empty profile.
ProfileNormalized ==
    \A u \in Users :
        LET profile == build_user_profile(Self, u)
        IN  /\ InteractionsOf(u) = {} => profile = EmptyProfile
            /\ InteractionsOf(u) # {} => ~profile.empty
            /\ DOMAIN profile.categories # {} => SumsToOne(profile.categories)
            /\ DOMAIN profile.authors # {} => SumsToOne(profile.authors)
            /\ \A c \in DOMAIN profile.categories :
                    profile.categories[c] > 0 /\ profile.categories[c] <= 1000000
            /\ \A a \in DOMAIN profile.authors :
                    profile.authors[a] > 0 /\ profile.authors[a] <= 1000000

\* A request has run, one user has no interactions, and another has
\* interactions of different kinds with books of two categories and two
\* authors, so that the profile holds two unequal weights in each map
ProfileNormalizedWitness ==
    /\ tfidf_matrix.fitted
    /\ \E u, v \in Users :
        /\ InteractionsOf(v) = {}
        /\ LET profile == build_user_profile(Self, u)
           IN  /\ \E c, d \in DOMAIN profile.categories :
                    profile.categories[c] < profile.categories[d]
               /\ \E a, b \in DOMAIN profile.authors :
                    profile.authors[a] < profile.authors[b]
               /\ profile.interaction_count = 2

\* Lines 252-282 when the candidates query returns its rows by access path
\* p: the candidates in descending order of score
RankedWith(p, u) ==
    LET fitted == fit_tfidf_model(Self)
        user_profile == build_user_profile(fitted, u)
        found == ScanWith(p, candidate_books(u, {r.book_id : r \in InteractionsOf(u)}))
        scores == Table([b \in Range(found) |->
                            book_score(fitted, user_profile, u, BookRow(b))])
    IN  SortedDesc(found, scores)

\* The list the request returns is the head of that ranking, taken with the
\* access path of the state
RankedWithAgrees ==
    \A u \in Users :
        LET r == Recommendations(u, MaxCount, "mysql")
        IN  r.path = "personal" =>
                BookIdsOf(r.recommendations) = SliceTo(RankedWith(plan, u), MaxCount)

\* C17: on the personalized path the order of the returned books does not
\* depend on the order in which the candidates query enumerates its rows:
\* over the same tables every access path gives the same ranking, equal
\* scores included.
TieOrderIndependent ==
    \A u \in Users :
        InteractionsOf(u) # {} =>
            \A p, q \in Plans : RankedWith(p, u) = RankedWith(q, u)

LikedInCorpus(e, u) ==
    {r.book_id : r \in {x \in InteractionsOf(u) : x.interaction_type \in {"like", "request"}}}
        \cap Range(e.book_ids)

\* The cosine of the matrix rows of two books of the corpus, in thousandths
RowCosine(e, a, b) ==
    Cosine(e.tfidf_matrix.rows[Index(e.book_ids, a)],
           e.tfidf_matrix.rows[Index(e.book_ids, b)])

\* The mean similarity of candidate b to those books, in millionths; 0
\* when there is none
MeanSimilarity(e, u, b) ==
    LET liked == LikedInCorpus(e, u)
    IN  IF liked = {} THEN 0
        ELSE (SumOver(liked, [l \in liked |-> RowCosine(e, b, l)]) * 1000)
                \div Cardinality(liked)

\* C20: on the personalized path the unrounded score of each candidate is
\* 0.4 * (profile weight of its category, 0 if absent) + 0.3 * (profile
\* weight of its author, 0 if absent) + 0.3 * s, s the mean similarity
\* between the candidate and the distinct books the user liked or requested
\* that are in the corpus, 0 without such a book; the score returned is
\* that value rounded.  A user whose only interaction is one like on a
\* Fiction book gives each Fiction candidate a category part of 0.4.
ScoreFormula ==
    \A u \in Users :
        LET e == fit_tfidf_model(Self)
            profile == build_user_profile(e, u)
            list == Recommendations(u, MaxCount, "mysql")
            Fiction == <<"F","i","c","t","i","o","n">>
        IN  list.path = "personal" =>
                /\ \A b \in candidate_books(u, {r.book_id : r \in InteractionsOf(u)}) :
                    LET book == BookRow(b)
                        category_part == (Get(profile.categories, book.category) * 4) \div 10
                    IN  /\ book_score(e, profile, u, book) =
                                (Get(profile.categories, book.category) * 4
                                    + Get(profile.authors, book.author) * 3
                                    + MeanSimilarity(e, u, b) * 3) \div 10
                        /\ (/\ CountRows(InteractionsOf(u)) = 1
                            /\ \A r \in InteractionsOf(u) :
                                    /\ r.interaction_type = "like"
                                    /\ BookRow(r.book_id).category = Fiction
                            /\ book.category = Fiction)
                                => category_part = 400000
                /\ \A i \in DOMAIN list.recommendations :
                    list.recommendations[i].relevance_score =
                        Round3(book_score(e, profile, u,
                                          BookRow(list.recommendations[i].book.id)))

\* A user liked or requested two books of the corpus to which a candidate
\* has different similarities, and liked a Fiction book while another
\* Fiction book is a candidate
ScoreFormulaWitness ==
    /\ Fitted
    /\ \E u \in Users :
        /\ Recommendations(u, MaxCount, "mysql").path = "personal"
        /\ Cardinality(LikedInCorpus(Self, u)) = 2
        /\ \E b \in candidate_books(u, {r.book_id : r \in InteractionsOf(u)}) :
            /\ \E l, m \in LikedInCorpus(Self, u) :
                    RowCosine(Self, b, l) < RowCosine(Self, b, m)
            /\ MeanSimilarity(Self, u, b) > 0
            /\ BookRow(b).category = <<"F","i","c","t","i","o","n">>
            /\ Get(build_user_profile(Self, u).categories, BookRow(b).category) > 0

\* C21: every book in the similar_books list of get_similar_books(b) for
\* requester u is available, is not b and is not owned by u; when b exists
\* but is not available, and so is not in the corpus, the list is empty and
\* the request succeeds with status 200.
SimilarBooksFiltered ==
    \A u \in Users, b \in BookIds, n \in 1..MaxCount :
        LET call == similar_books(Self, u, b, n)
        IN  /\ \A i \in DOMAIN call.similar_books :
                LET book == call.similar_books[i].book
                IN  /\ Exists(book.id) /\ book.available /\ books[book.id].available
                    /\ book.id # b
                    /\ book.user_id # u
            /\ (Exists(b) /\ ~books[b].available) =>
                    call.status = 200 /\ call.similar_books = <<>>

\* The requester owns an available book that the reference book's list
\* leaves out, and another reference book is unavailable while books of
\* other users are available
SimilarBooksFilteredWitness ==
    \E u \in Users, b, c \in AllBooks :
        /\ Len(SimilarBooks(u, b, MaxCount)) >= 1
        /\ \E own \in AvailableBooks : own # b /\ BookRow(own).user_id = u
        /\ ~books[c].available
        /\ \E other \in AvailableBooks : BookRow(other).user_id # u
        /\ similar_books(Self, u, c, MaxCount).status = 200

\* C22: the parameters a fit uses depend only on the size of the corpus
\* fitted, whatever the engine fitted before: a fit over two or more
\* documents uses the default parameters (cap 5000, unigrams and bigrams)
\* and only a fit over exactly one document the reduced ones (cap 1000,
\* unigrams).  The vectorizer the fit leaves in the engine is the one it
\* used, and the matrix is the one those parameters give.
FitParametersBySize ==
    LET fitted == fit_tfidf_model(Self)
        corpus == build_corpus(Self).corpus
    IN  /\ Len(corpus) >= 2 =>
                /\ fitted.vectorizer = DefaultVectorizer
                /\ fitted.tfidf_matrix.rows = FitTable[<<corpus, DefaultVectorizer>>]
        /\ Len(corpus) = 1 =>
                /\ fitted.vectorizer = ReducedVectorizer
                /\ fitted.tfidf_matrix.rows = FitTable[<<corpus, ReducedVectorizer>>]

TallyWeight == [view |-> 10, like |-> 20, request |-> 30, search |-> 5]

\* The summed weight of a set of interaction rows, each counted as often as
\* the table holds it
Tally(R) == SumOver(R, [r \in R |-> interactions[r] * TallyWeight[r.interaction_type]])

AboveTenth(u, R) ==
    10 * Tally(R) > Tally({r \in InteractionsOf(u) : Exists(r.book_id)})

\* C25: for every recommendation of the personalized path the reason
\* mentions category interest if and only if the profile weight of the
\* book's category is strictly greater than 0.1, mentions author interest
\* if and only if the weight of the book's author is strictly greater than
\* 0.1, and is the generic phrase exactly when neither holds; on both
\* paths the reason is never empty.
ReasonThresholds ==
    \A u \in Users, n \in 1..MaxCount :
        LET r == Recommendations(u, n, "mysql")
            counted == {x \in InteractionsOf(u) : Exists(x.book_id)}
        IN  \A i \in DOMAIN r.recommendations :
                LET book == BookRow(r.recommendations[i].book.id)
                    reason == r.recommendations[i].recommendation_reason
                    category_interest ==
                        AboveTenth(u, {x \in counted :
                                        Listing(x.book_id).category = book.category})
                    author_interest ==
                        AboveTenth(u, {x \in counted :
                                        Listing(x.book_id).author = book.author})
                IN  /\ reason.prefix # "" /\ reason.reasons # <<>>
                    /\ r.path = "personal" =>
                        /\ "interest in category" \in Range(reason.reasons)
                                <=> category_interest
                        /\ "liked author" \in Range(reason.reasons) <=> author_interest
                        /\ reason.reasons = <<"reading preferences">>
                                <=> (~category_interest /\ ~author_interest)

\* A request has run, and a personalized list holds a book whose category
\* has a profile weight of exactly 0.1 and whose author has more: the
\* reason names the author alone
ReasonThresholdsWitness ==
    /\ tfidf_matrix.fitted
    /\ \E u \in Users :
        LET r == Recommendations(u, MaxCount, "mysql")
            profile == build_user_profile(Self, u)
        IN  /\ r.path = "personal"
            /\ \E i \in DOMAIN r.recommendations :
                LET book == BookRow(r.recommendations[i].book.id)
                IN  /\ Get(profile.categories, book.category) = 100000
                    /\ Get(profile.authors, book.author) > 100000
                    /\ r.recommendations[i].recommendation_reason.reasons
                            = <<"liked author">>

\* The status changes an exchange request may make
StatusEdges == {<<"pending", "approved">>, <<"pending", "rejected">>,
                <<"approved", "rejected">>, <<"approved", "completed">>}

\* One step: every request that stays in the table keeps its status or
\* moves along one of those edges
StatusStep ==
    \A e \in DOMAIN exchanges \cap DOMAIN exchanges' :
        \/ exchanges'[e].status = exchanges[e].status
        \/ <<exchanges[e].status, exchanges'[e].status>> \in StatusEdges

\* C26: over every sequence of create_exchange, update_exchange,
\* cancel_exchange, update_book_availability and delete_book calls, the
\* status of an existing exchange request changes only along
\* pending->approved, pending->rejected, approved->rejected and
\* approved->completed: a rejected or completed request never changes
\* status again, and a request becomes completed only from approved.
StatusLifecycle == [][StatusStep]_vars

\* One request was approved and completed, and a later one was rejected
StatusLifecycleWitness ==
    \E e, f \in DOMAIN exchanges :
        /\ exchanges[e].status = "completed"
        /\ exchanges[f].status = "rejected"
        /\ e < f

\* The book of request e has another request that is completed
CompletedElsewhere(e) ==
    \E c \in DOMAIN exchanges :
        /\ c # e
        /\ exchanges[c].book_id = exchanges[e].book_id
        /\ exchanges[c].status = "completed"

\* One step: a completion leaves the book unavailable, and a rejection or
\* a cancellation of another request of a book that has a completed
\* request does not turn column available from false to true
CompletedStep ==
    \A s \in Subjects, e \in DOMAIN exchanges :
        LET b == exchanges[e].book_id
        IN  /\ (update_exchange(s, e, "completed") /\ Exists(b))
                    => ~books'[b].available
            /\ (/\ update_exchange(s, e, "rejected") \/ cancel_exchange(s, e)
                /\ CompletedElsewhere(e)
                /\ Exists(b) /\ ~books[b].available)
                    => ~books'[b].available

UnavailableHasNoPending ==
    \A b \in BookIds :
        (Exists(b) /\ ~books[b].available) => pending_requests(b) = {}

\* No requester has two pending requests for one book
OnePendingPerPair ==
    \A e, f \in DOMAIN exchanges :
        (/\ exchanges[e].status = "pending"
         /\ exchanges[f].status = "pending"
         /\ exchanges[e].requester_id = exchanges[f].requester_id
         /\ exchanges[e].book_id = exchanges[f].book_id) => e = f

\* One step: a call whose query finds a pending request answers 409 and
\* leaves the table alone
ConflictStep ==
    \A t \in Threads :
        (/\ existing_request(t)
         /\ \E e \in pending_requests(local[t].book_id) :
                exchanges[e].requester_id = local[t].user_id)
            => /\ exchanges' = exchanges
               /\ pc'[t] = "idle"
               /\ local'[t].status = 409

\* C29: after any interleaving of create_exchange calls, including two
\* concurrent calls by the same requester for the same book, at most one
\* exchange request per (requester, book) pair is in status pending, and a
\* call that finds an existing pending request creates none.
SinglePendingRequest == []OnePendingPerPair /\ [][ConflictStep]_vars

\* Two calls of one requester for one book both passed the query for a
\* pending request; one inserted the request and the other's insert was
\* refused by the unique constraint
SinglePendingRequestWitness ==
    \E t, u \in Threads :
        /\ t # u
        /\ pc[t] = "idle" /\ local[t].status = 201
        /\ pc[u] = "idle" /\ local[u].status = 500
        /\ local[t].user_id = local[u].user_id
        /\ local[t].book_id = local[u].book_id
        /\ local[u].user_id # BookRow(local[u].book_id).user_id
        /\ \E e \in pending_requests(local[u].book_id) :
                exchanges[e].requester_id = local[u].user_id

\* C30: record_interaction never stores two 'view' interactions of the same
\* user on the same book whose created_at times are less than 5 minutes
\* apart, including when two such requests are processed concurrently: the
\* later request returns success and inserts nothing.
NoRepeatedView ==
    \A r \in DOMAIN interactions : r.interaction_type = "view" => interactions[r] <= 1

====
